---- MODULE Spec2Model ----
(***************************************************************************)
(* Model of the email-reaction simulator (backend/simulation.py,           *)
(* backend/main.py, backend/llm_service.py).                               *)
(*                                                                         *)
(* Spec         one streamed run: the HTTP client pulls event_generator,   *)
(*              which pulls run_simulation_stream, which calls the oracle. *)
(* SpecPersona  _simulate_single_persona over every oracle reply drawn.    *)
(* SpecRate     the rate expression of the Metrics constructor.            *)
(* SpecInsights _generate_insights over every Metrics and oracle reply.    *)
(* SpecSimilarity  EmbeddingService._keyword_similarity over every pair of *)
(*              texts drawn.                                               *)
(* SpecShared   two calls of run_simulation_stream on the module-level     *)
(*              simulator, their steps interleaved.                        *)
(* SpecMock     _simulate_single_persona with MockLLM as the oracle, over  *)
(*              every draft and random choice drawn.                       *)
(* SpecOpenAI   one call of run_simulation_stream whose oracle is          *)
(*              OpenAILLM, the backend failing or answering at each call.  *)
(***************************************************************************)
EXTENDS Integers, Sequences, FiniteSets

VARIABLES
    n,              \* len(personas): the size of the population of the run
    pc,             \* position of the run_simulation_stream generator
    i,              \* 1-based index of the persona being processed
    scan,           \* locals of _simulate_single_persona kept across the action call
    responses,      \* responses
    counts,         \* open_count .. forward_count
    metrics,        \* metrics (computed after the loop)
    events,         \* events yielded by run_simulation_stream, in order
    calls,          \* oracle calls made so far, in order
    pulls,          \* number of next() calls made on run_simulation_stream
    spc,            \* position of the event_generator generator
    out,            \* lines yielded by event_generator, in order
    final_result_data, \* final_result_data of event_generator
    dbPending,      \* objects added to the session and not committed
    dbCommitted,    \* objects committed to the store
    client,         \* the consumer of the StreamingResponse
    arg,            \* argument of the function applied (function specifications)
    ret,            \* its result
    frames          \* the frames of the run_simulation_stream calls that share
                    \* the module-level simulator (specification SpecShared)

runVars == <<n, pc, i, scan, responses, counts, metrics, events, calls, pulls,
             spc, out, final_result_data, dbPending, dbCommitted, client>>
vars == <<n, pc, i, scan, responses, counts, metrics, events, calls, pulls,
          spc, out, final_result_data, dbPending, dbCommitted, client, arg, ret,
          frames>>

(***************************************************************************)
(* Bounds                                                                  *)
(***************************************************************************)
MaxPersonas == 4
MaxTotal == 50
MaxWords == 2
MaxShared == 2

(***************************************************************************)
(* JSON values and oracle replies                                          *)
(***************************************************************************)
\* A value found under a key of a parsed object.
Absent == [t |-> "absent", v |-> ""]
Null == [t |-> "null", v |-> ""]
Number == [t |-> "number", v |-> "1"]
Str(s) == [t |-> "str", v |-> s]

Keys == {"action", "reason", "thought_process",
         "final_action", "internal_monologue", "reply_text"}
NoFields == [k \in Keys |-> Absent]

\* What llm.predict does: it raises, returns None, or returns a text. A text is
\* no JSON at all, a JSON document that is no object, or a JSON object; it may
\* come wrapped in a ```json fence.
Reply(kind) == [kind |-> kind, fenced |-> FALSE, fields |-> NoFields]
ScanObject(a, r, tp) ==
    [kind |-> "object", fenced |-> FALSE,
     fields |-> [NoFields EXCEPT !["action"] = a, !["reason"] = r,
                                 !["thought_process"] = tp]]
ActObject(fa, im, rt) ==
    [kind |-> "object", fenced |-> FALSE,
     fields |-> [NoFields EXCEPT !["final_action"] = fa,
                                 !["internal_monologue"] = im,
                                 !["reply_text"] = rt]]
InFence(t) == [t EXCEPT !.fenced = TRUE]

\* str.lower() on the strings drawn below.
Lower(s) ==
    CASE s = "Opened" -> "opened"
      [] s = "OPENED" -> "opened"
      [] s = "Spam" -> "spam"
      [] s = "IGNORED" -> "ignored"
      [] s = "Clicked" -> "clicked"
      [] s = "REPLIED" -> "replied"
      [] s = "Positive" -> "positive"
      [] s = "ISSUE" -> "issue"
      [] s = "The" -> "the"
      [] s = "EMAIL" -> "email"
      [] s = "Offer" -> "offer"
      [] OTHER -> s

\* res_str.replace("```json", "").replace("```", "").strip()
StripFences(t) == [t EXCEPT !.fenced = FALSE]

\* json.loads raises on a text that is not one JSON document.
JsonLoadsRaises(t) == t.fenced \/ t.kind = "nonjson"

\* The try block around predict, the fence stripping and json.loads: the parsed
\* document, or the default of the except clause. predict raising, and
\* None.replace(...), are caught by the same bare except.
TryParse(reply, default) ==
    IF reply.kind \in {"raise", "none"}
    THEN default
    ELSE LET s == StripFences(reply)
         IN  IF JsonLoadsRaises(s) THEN default ELSE s

\* d.get(key, default) on a dict.
Get(d, key, default) ==
    IF d.fields[key].t = "absent" THEN default ELSE d.fields[key]

\* x.get(...) raises AttributeError when x is not a dict, and v.lower() raises
\* AttributeError when v is not a str.
GetLowerRaises(d, key, default) ==
    \/ d.kind # "object"
    \/ Get(d, key, default).t # "str"

\* Variant: only None is replaced.
OrDefaultNoneOnly(x, d) == IF x.t \in {"absent", "null"} THEN Str(d) ELSE x

\* x or "No comment"
OrDefault(x, d) ==
    IF x.t \in {"absent", "null"} \/ (x.t = "str" /\ x.v = "") THEN Str(d) ELSE x

(***************************************************************************)
(* Persona Decision Engine: Simulator._simulate_single_persona             *)
(***************************************************************************)
\* Variant: the except clause of the scan stage defaults to opened.
ScanDefaultOpened ==
    ScanObject(Str("opened"), Str("Failed to parse decision"),
               Str("Error parsing LLM response"))

\* Variant: the except clause of the scan stage gives the reason of the
\* missing-reason default.
ScanDefaultNotRelevant ==
    ScanObject(Str("ignored"), Str("Not relevant"),
               Str("Error parsing LLM response"))

ScanDefault ==
    ScanObject(Str("ignored"), Str("Failed to parse decision"),
               Str("Error parsing LLM response"))
ActDefault == ActObject(Str("opened"), Str("Undecided"), Absent)

\* Variant: the scan action is lower-cased and not clamped.
ClampScanActionNone(a) == a

\* The clamp of the scan action.
ClampScanAction(a) == IF a \in {"opened", "ignored", "spam"} THEN a ELSE "ignored"

\* Phase A up to the test of action == "opened".
ScanStage(reply) ==
    LET res_a == TryParse(reply, ScanDefault)
    IN  IF GetLowerRaises(res_a, "action", Str("ignored"))
        THEN [raised |-> TRUE, action |-> "", reason |-> Null,
              detailed_reasoning |-> Null, comment |-> Null]
        ELSE LET reason == Get(res_a, "reason", Str("Not relevant"))
             IN  [raised |-> FALSE,
                  action |-> ClampScanAction(Lower(Get(res_a, "action", Str("ignored")).v)),
                  reason |-> reason,
                  detailed_reasoning |-> Get(res_a, "thought_process", reason),
                  comment |-> reason]

\* Variant: the action stage is entered unless the scan action is ignored.
ReachesActStageUnlessIgnored(action) == action # "ignored"

\* if action == "opened": the action stage is entered.
ReachesActStage(action) == action = "opened"

\* Variant: final_action overrides the action whatever it is.
OverrideActionAny(action, final_action) == final_action

\* The override of the action by final_action.
OverrideAction(action, final_action) ==
    IF final_action \in {"clicked", "replied"} THEN final_action ELSE action

\* Phase C: the body of if action == "opened".
ActStage(s, reply) ==
    LET res_c == TryParse(reply, ActDefault)
    IN  IF GetLowerRaises(res_c, "final_action", Str("opened"))
        THEN [raised |-> TRUE, action |-> "", reason |-> Null,
              detailed_reasoning |-> Null, comment |-> Null]
        ELSE LET action == OverrideAction(s.action,
                               Lower(Get(res_c, "final_action", Str("opened")).v))
             IN  [raised |-> FALSE,
                  action |-> action,
                  reason |-> s.reason,
                  detailed_reasoning |-> Get(res_c, "internal_monologue", s.reason),
                  comment |-> IF action = "replied"
                              THEN Get(res_c, "reply_text", Null)
                              ELSE Get(res_c, "internal_monologue", s.reason)]

\* Variant: every Response refers to the first persona.
MakeResponseOfFirst(persona, s) ==
    [persona |-> 1, action |-> s.action, sentiment |-> "neutral",
     comment |-> OrDefault(s.comment, "No comment"),
     detailedReasoning |-> s.detailed_reasoning]

\* The Response constructed at the return.
MakeResponse(persona, s) ==
    [persona |-> persona, action |-> s.action, sentiment |-> "neutral",
     comment |-> OrDefault(s.comment, "No comment"),
     detailedReasoning |-> s.detailed_reasoning]

NoResponse ==
    [persona |-> 0, action |-> "", sentiment |-> "", comment |-> Null,
     detailedReasoning |-> Null]

\* One call of _simulate_single_persona: whether it raised, the Response it
\* returned, and the oracle calls it made.
SimulateSinglePersona(persona, scanReply, actReply) ==
    LET a == ScanStage(scanReply)
    IN  IF a.raised
        THEN [raised |-> TRUE, response |-> NoResponse, calls |-> <<"scan">>]
        ELSE IF ~ReachesActStage(a.action)
        THEN [raised |-> FALSE, response |-> MakeResponse(persona, a),
              calls |-> <<"scan">>]
        ELSE LET c == ActStage(a, actReply)
             IN  IF c.raised
                 THEN [raised |-> TRUE, response |-> NoResponse,
                       calls |-> <<"scan", "act">>]
                 ELSE [raised |-> FALSE, response |-> MakeResponse(persona, c),
                       calls |-> <<"scan", "act">>]

(***************************************************************************)
(* Metrics: int((count / total) * 100) in binary64 arithmetic              *)
(***************************************************************************)
\* A Python float x > 0 is held as [a, b, c, e]: the integer
\* a * Limb^2 + b * Limb + c, of at most 53 significant bits, times 2^-e.
Limb == 2^18

\* Number of zero bits that open the binary expansion of r / t, 0 < r < t.
RECURSIVE LeadingZeros(_, _)
LeadingZeros(r, t) == IF 2 * r >= t THEN 0 ELSE 1 + LeadingZeros(2 * r, t)

\* Carries of the limbs c into b into a.
Carry(a, b, c, e) ==
    LET b1 == b + (c \div Limb)
    IN  [a |-> a + (b1 \div Limb), b |-> b1 % Limb, c |-> c % Limb, e |-> e]

\* count / total for 0 < count < total: the quotient has its leading bit at
\* 2^-(z+1); its 53 bits are produced by long division, 17 + 18 + 18 bits, and
\* rounded to nearest, ties to even, on the next bit and the remainder.
FloatDiv(count, total) ==
    LET z == LeadingZeros(count, total)
        n0 == count * 2^(z + 17)
        a == n0 \div total
        ra == n0 % total
        b == (ra * Limb) \div total
        rb == (ra * Limb) % total
        c == (rb * Limb) \div total
        rc == (rb * Limb) % total
        guard == (2 * rc) \div total
        sticky == (2 * rc) % total # 0
        up == guard = 1 /\ (sticky \/ c % 2 = 1)
    IN  Carry(a, b, IF up THEN c + 1 ELSE c, z + 53)

\* x * 100 for a float x: the exact product has 59 or 60 bits; its low 6 or 7
\* bits are rounded away, to nearest, ties to even.
FloatMul100(x) ==
    LET p == Carry(100 * x.a, 100 * x.b, 100 * x.c, x.e)
        d == IF p.a < 2^23 THEN 6 ELSE 7
        low == p.c % 2^d
        half == 2^(d - 1)
        up == low > half \/ (low = half /\ (p.c \div 2^d) % 2 = 1)
    IN  Carry(p.a, p.b, p.c - low + (IF up THEN 2^d ELSE 0), p.e)

\* int(x) for a float x >= 0 with e >= 36: truncation.
FloatToInt(x) == x.a \div 2^(x.e - 36)

\* int((count / total) * 100) if total > 0 else 0, for 0 <= count <= total.
Rate(count, total) ==
    IF total > 0
    THEN IF count = 0 THEN 0
         ELSE IF count = total THEN 100
         ELSE FloatToInt(FloatMul100(FloatDiv(count, total)))
    ELSE 0

(***************************************************************************)
(* Counters and Metrics of run_simulation_stream                           *)
(***************************************************************************)
ZeroCounts ==
    [open |-> 0, click |-> 0, reply |-> 0, spam |-> 0, ignore |-> 0,
     read |-> 0, forward |-> 0]

Inc(b) == IF b THEN 1 ELSE 0

\* Variant: a spam Response is not counted.
UpdateCountsNoSpam(c, action, h) ==
    [open |-> c.open + Inc(action = "opened"),
     click |-> c.click + Inc(action = "clicked"),
     reply |-> c.reply + Inc(action = "replied"),
     spam |-> c.spam,
     ignore |-> c.ignore + Inc(action = "ignored"),
     read |-> c.read + Inc(action \in {"opened", "clicked", "replied"}),
     forward |-> c.forward + Inc(action = "clicked" /\ h)]

\* Variant: the forward rule is applied whatever the action.
UpdateCountsForwardAny(c, action, h) ==
    [open |-> c.open + Inc(action = "opened"),
     click |-> c.click + Inc(action = "clicked"),
     reply |-> c.reply + Inc(action = "replied"),
     spam |-> c.spam + Inc(action = "spam"),
     ignore |-> c.ignore + Inc(action = "ignored"),
     read |-> c.read + Inc(action \in {"opened", "clicked", "replied"}),
     forward |-> c.forward + Inc(h)]

\* Variant: a replied Response is not counted as read.
UpdateCountsReadNoReply(c, action, h) ==
    [open |-> c.open + Inc(action = "opened"),
     click |-> c.click + Inc(action = "clicked"),
     reply |-> c.reply + Inc(action = "replied"),
     spam |-> c.spam + Inc(action = "spam"),
     ignore |-> c.ignore + Inc(action = "ignored"),
     read |-> c.read + Inc(action \in {"opened", "clicked"}),
     forward |-> c.forward + Inc(action = "clicked" /\ h)]

\* The updates of the counters after one Response; h is hash(p.id) % 5 == 0.
UpdateCounts(c, action, h) ==
    [open |-> c.open + Inc(action = "opened"),
     click |-> c.click + Inc(action = "clicked"),
     reply |-> c.reply + Inc(action = "replied"),
     spam |-> c.spam + Inc(action = "spam"),
     ignore |-> c.ignore + Inc(action = "ignored"),
     read |-> c.read + Inc(action \in {"opened", "clicked", "replied"}),
     forward |-> c.forward + Inc(action = "clicked" /\ h)]

ComputeMetrics(c, total) ==
    [openRate |-> Rate(c.open, total),
     clickRate |-> Rate(c.click, total),
     replyRate |-> Rate(c.reply, total),
     spamRate |-> Rate(c.spam, total),
     ignoreRate |-> Rate(c.ignore, total),
     forwardRate |-> Rate(c.forward, total),
     readRate |-> Rate(c.read, total)]

ZeroMetrics == ComputeMetrics(ZeroCounts, 0)

(***************************************************************************)
(* Insight Generator: Simulator._generate_insights                         *)
(***************************************************************************)
\* What the insight call of llm.predict does. kind: "raise", "none" (None is
\* returned), "nomatch" (a text without {...}), "badjson" (a {...} that neither
\* json.loads nor ast.literal_eval accepts), "literal" (one that only
\* ast.literal_eval accepts), "object". For the last two, has_insights says
\* whether the key "insights" is there, list whether its value is a list, and
\* items is the list. An item is a dict or not; a dict has a type and a title.
InsightReply(kind, has, isList, items) ==
    [kind |-> kind, has_insights |-> has, list |-> isList, items |-> items]
Item(type, title) == [dict |-> TRUE, type |-> type, title |-> title]
NotADict == [dict |-> FALSE, type |-> Absent, title |-> Absent]

\* Insight has type, title and description; description is copied like title
\* and is left out.
Insight(type, title) == [type |-> type, title |-> title]

ItemGet(v, default) == IF v.t = "absent" THEN default ELSE v

\* item.get(...) on a non-dict and .lower() on a non-str raise.
ItemRaises(item) == ~item.dict \/ ItemGet(item.type, Str("warning")).t # "str"

\* Variant: a type outside the three is kept.
NormalizeTypeKeepsOthers(t) == IF t = "issue" THEN "negative" ELSE t

NormalizeType(t) ==
    IF t = "issue" THEN "negative"
    ELSE IF t \notin {"positive", "negative", "warning"} THEN "warning"
    ELSE t

ConvertItem(item) ==
    Insight(NormalizeType(Lower(ItemGet(item.type, Str("warning")).v)),
            ItemGet(item.title, Str("Insight")).v)

\* The insights appended by the for loop until an item raises.
RECURSIVE ConvertItems(_)
ConvertItems(items) ==
    IF items = <<>> \/ ItemRaises(Head(items))
    THEN <<>>
    ELSE <<ConvertItem(Head(items))>> \o ConvertItems(Tail(items))

\* The try block: whether it returned, and the list insights as it left it.
OraclePath(reply) ==
    IF reply.kind \in {"raise", "none", "nomatch", "badjson"}
    THEN [returned |-> FALSE, insights |-> <<>>]
    ELSE IF ~reply.has_insights \/ ~reply.list
    THEN [returned |-> FALSE, insights |-> <<>>]
    ELSE [returned |-> \A k \in 1..Len(reply.items) : ~ItemRaises(reply.items[k]),
          insights |-> ConvertItems(reply.items)]

\* The titles of the fallback (in the source: Russian literals).
LowOpenRate == Insight("negative", "Low Open Rate")
HighOpenRate == Insight("positive", "High Open Rate")
HighSpamRisk == Insight("warning", "High spam risk")

\* Variant: the thresholds are inclusive.
HeuristicsInclusive(insights, m) ==
    insights
    \o (IF m.openRate <= 20 THEN <<LowOpenRate>>
        ELSE IF m.openRate >= 40 THEN <<HighOpenRate>>
        ELSE <<>>)
    \o (IF m.spamRate >= 10 THEN <<HighSpamRisk>> ELSE <<>>)

\* Fallback Heuristics, appended to the list insights.
Heuristics(insights, m) ==
    insights
    \o (IF m.openRate < 20 THEN <<LowOpenRate>>
        ELSE IF m.openRate > 40 THEN <<HighOpenRate>>
        ELSE <<>>)
    \o (IF m.spamRate > 10 THEN <<HighSpamRisk>> ELSE <<>>)

GenerateInsights(m, reply) ==
    LET o == OraclePath(reply)
    IN  IF o.returned THEN o.insights ELSE Heuristics(o.insights, m)

(***************************************************************************)
(* Lexical similarity: EmbeddingService._keyword_similarity                *)
(***************************************************************************)
\* A text is held as the sequence of its whitespace-separated words, which is
\* what text.split() returns.
stop_words ==
    {"the", "a", "an", "and", "or", "but", "in", "on", "at", "to", "for", "of", "with"}

\* set(text.lower().split()) - stop_words
WordSet(text) == {Lower(text[k]) : k \in DOMAIN text} \ stop_words

RECURSIVE Gcd(_, _)
Gcd(a, b) == IF b = 0 THEN a ELSE Gcd(b, a % b)

\* The float a / b of two small integers, a >= 0 and b > 0, held as the
\* fraction in lowest terms: two such quotients are the same float exactly
\* when they are the same fraction.
Quotient(a, b) == [num |-> a \div Gcd(a, b), den |-> b \div Gcd(a, b)]

\* Variant: the intersection is divided by the size of the first set.
KeywordSimilarityOverFirst(text1, text2) ==
    LET words1 == WordSet(text1)
        words2 == WordSet(text2)
    IN  IF words1 = {} \/ words2 = {}
        THEN Quotient(0, 1)
        ELSE Quotient(Cardinality(words1 \cap words2), Cardinality(words1))

KeywordSimilarity(text1, text2) ==
    LET words1 == WordSet(text1)
        words2 == WordSet(text2)
    IN  IF words1 = {} \/ words2 = {}
        THEN Quotient(0, 1)
        ELSE Quotient(Cardinality(words1 \cap words2), Cardinality(words1 \cup words2))

(***************************************************************************)
(* Events, and the replies drawn in a run                                  *)
(***************************************************************************)
ProgressEvent(current, total) ==
    [type |-> "progress", current |-> current, total |-> total]
ResultEvent(data) == [type |-> "result", data |-> data]
ErrorEvent == [type |-> "error", message |-> "Simulation failed. Please try again."]

\* SimulationResult: id and timestamp are read from the clock and left out.
SimulationResult(m, ins, rs) == [metrics |-> m, insights |-> ins, responses |-> rs]

RunScanReplies ==
    {Reply("nonjson"), Reply("list"),
     ScanObject(Absent, Absent, Absent),
     ScanObject(Str("opened"), Str("r"), Absent),
     InFence(ScanObject(Str("Spam"), Str("r"), Str("tp")))}

RunActReplies ==
    {Reply("nonjson"), Reply("null"),
     ActObject(Str("clicked"), Str("im"), Null),
     ActObject(Str("REPLIED"), Str("im"), Str("rt")),
     ActObject(Str("forwarded"), Absent, Absent)}

RunInsightReplies ==
    {InsightReply("raise", FALSE, FALSE, <<>>),
     InsightReply("nomatch", FALSE, FALSE, <<>>),
     InsightReply("object", FALSE, FALSE, <<>>),
     InsightReply("object", TRUE, TRUE, <<Item(Str("Positive"), Str("t1"))>>),
     InsightReply("literal", TRUE, TRUE, <<Item(Str("issue"), Absent), NotADict>>)}

(***************************************************************************)
(* One streamed run: main.simulate_email.event_generator pulling           *)
(* Simulator.run_simulation_stream                                         *)
(*                                                                         *)
(* pc:  "created"   the generator has not run yet                          *)
(*      "scan"      running, at the scan call of llm.predict for persona i *)
(*      "act"       running, at the action call of llm.predict             *)
(*      "progress"  suspended at the yield of the progress event           *)
(*      "insights"  running, at the insight call of llm.predict            *)
(*      "result"    suspended at the yield of the result event             *)
(*      "done"      returned; "raised": an exception left it;              *)
(*      "closed"    dropped by its consumer while suspended                *)
(* spc: "created", "in_core" (inside next() of the core), "yielded",       *)
(*      "saving" (at the database calls), "yielded_error", "done",         *)
(*      "closed"                                                           *)
(***************************************************************************)
ZeroDb == [sims |-> 0, resps |-> 0]
NoScan ==
    [raised |-> FALSE, action |-> "", reason |-> Null,
     detailed_reasoning |-> Null, comment |-> Null]
NoArg == [fn |-> "none"]
NoFrames == <<>>
NoRet == [fn |-> "none", val |-> <<>>]

\* The state before the first next(), for a population of size k.
Created(k) ==
    /\ n = k
    /\ pc = "created"
    /\ i = 0
    /\ scan = NoScan
    /\ responses = <<>>
    /\ counts = ZeroCounts
    /\ metrics = ZeroMetrics
    /\ events = <<>>
    /\ calls = <<>>
    /\ pulls = 0
    /\ spc = "created"
    /\ out = <<>>
    /\ final_result_data = <<>>
    /\ dbPending = ZeroDb
    /\ dbCommitted = ZeroDb
    /\ client = "active"

Init ==
    /\ \E k \in 0..MaxPersonas : Created(k)
    /\ arg = NoArg
    /\ ret = NoRet
    /\ frames = NoFrames

\* db.rollback()
Rollback(pending) == ZeroDb

\* Variant: the except clause yields nothing.
YieldErrorSilent(o) == o

\* yield json.dumps({"type": "error", ...}) + "\n"
YieldError(o) == Append(o, ErrorEvent)

\* yield json.dumps(event) + "\n": one line per event of the core.
YieldLine(o, ev) == Append(o, ev)

\* The except clause of event_generator, with the session holding pending.
ServiceExcept(pending) ==
    /\ dbPending' = Rollback(pending)
    /\ out' = YieldError(out)
    /\ spc' = "yielded_error"

\* A yield of the core: the for loop of event_generator takes the event and
\* yields its line.
Yield(ev, at) ==
    /\ events' = Append(events, ev)
    /\ out' = YieldLine(out, ev)
    /\ pc' = at
    /\ spc' = "yielded"

\* An exception leaves the core and is caught by event_generator.
CoreRaises ==
    /\ pc' = "raised"
    /\ ServiceExcept(dbPending)
    /\ UNCHANGED <<scan, responses, counts, events>>

\* The rest of the loop body after _simulate_single_persona returned.
FinishPersona(s, h) ==
    LET response == MakeResponse(i, s)
    IN  /\ responses' = Append(responses, response)
        /\ counts' = UpdateCounts(counts, response.action, h)
        /\ scan' = NoScan
        /\ Yield(ProgressEvent(i, n), "progress")
        /\ UNCHANGED dbPending

\* Variant: the loop is left after its first pass.
ResumeAtEarlyExit(k) == IF k = 0 /\ 0 < n THEN "scan" ELSE "insights"

\* The position the core runs to when resumed after persona k: the scan call
\* of the next persona or, after the loop, the insight call.
ResumeAt(k) == IF k < n THEN "scan" ELSE "insights"

\* The head of the for loop after persona k (k = 0: the start of the body).
LoopHead(k) ==
    /\ pc' = ResumeAt(k)
    /\ i' = IF k < n THEN k + 1 ELSE i
    /\ metrics' = IF k < n THEN metrics ELSE ComputeMetrics(counts, n)

\* event_generator may be resumed by its consumer.
CanResume(c, s) == c = "active" /\ s \in {"created", "yielded"}

\* The client asks for the next line: event_generator resumes, records the
\* result it has just yielded, and calls next() on the core.
ClientNext ==
    /\ CanResume(client, spc)
    /\ final_result_data' =
           IF spc = "yielded" /\ out[Len(out)].type = "result"
           THEN <<out[Len(out)].data>>
           ELSE final_result_data
    /\ pulls' = pulls + 1
    /\ CASE pc = "created" -> LoopHead(0) /\ spc' = "in_core"
         [] pc = "progress" -> LoopHead(i) /\ spc' = "in_core"
         [] pc = "result" ->
                /\ pc' = "done"
                /\ spc' = IF final_result_data' # <<>> THEN "saving" ELSE "done"
                /\ UNCHANGED <<i, metrics>>
    /\ UNCHANGED <<n, scan, responses, counts, events, calls, out, dbPending,
                   dbCommitted, client, arg, ret, frames>>

\* The client asks for the next line after the error line: event_generator ends.
ClientNextAfterError ==
    /\ client = "active"
    /\ spc = "yielded_error"
    /\ spc' = "done"
    /\ UNCHANGED <<n, pc, i, scan, responses, counts, metrics, events, calls,
                   pulls, out, final_result_data, dbPending, dbCommitted,
                   client, arg, ret, frames>>

\* The client stops reading: the suspended generators are dropped.
ClientAbandon ==
    /\ client = "active"
    /\ spc \in {"created", "yielded", "yielded_error"}
    /\ client' = "gone"
    /\ spc' = "closed"
    /\ pc' = IF pc \in {"created", "progress", "result"} THEN "closed" ELSE pc
    /\ UNCHANGED <<n, i, scan, responses, counts, metrics, events, calls, pulls,
                   out, final_result_data, dbPending, dbCommitted, arg, ret, frames>>

\* Phase A of persona i.
ScanCall ==
    /\ pc = "scan"
    /\ \E reply \in RunScanReplies :
          LET s == ScanStage(reply)
          IN  IF s.raised THEN CoreRaises
              ELSE IF ReachesActStage(s.action)
              THEN /\ scan' = s
                   /\ pc' = "act"
                   /\ UNCHANGED <<responses, counts, events, out, spc, dbPending>>
              ELSE FinishPersona(s, FALSE)
    /\ calls' = Append(calls, [stage |-> "scan", persona |-> i])
    /\ UNCHANGED <<n, i, metrics, pulls, final_result_data, dbCommitted, client,
                   arg, ret, frames>>

\* Phase C of persona i.
ActCall ==
    /\ pc = "act"
    /\ \E reply \in RunActReplies, h \in BOOLEAN :
          LET c == ActStage(scan, reply)
          IN  IF c.raised THEN CoreRaises ELSE FinishPersona(c, h)
    /\ calls' = Append(calls, [stage |-> "act", persona |-> i])
    /\ UNCHANGED <<n, i, metrics, pulls, final_result_data, dbCommitted, client,
                   arg, ret, frames>>

\* _generate_insights, the SimulationResult and the yield of the result event.
InsightCall ==
    /\ pc = "insights"
    /\ \E reply \in RunInsightReplies :
          Yield(ResultEvent(SimulationResult(metrics,
                                GenerateInsights(metrics, reply), responses)),
                "result")
    /\ calls' = Append(calls, [stage |-> "insights", persona |-> 0])
    /\ UNCHANGED <<n, i, scan, responses, counts, metrics, pulls,
                   final_result_data, dbPending, dbCommitted, client, arg, ret, frames>>

\* Save to DB after simulation is done: db.add, db.flush, db.add per response,
\* db.commit; flush or commit may raise.
Persist ==
    /\ spc = "saving"
    /\ \E outcome \in {"ok", "flush_raises", "commit_raises"} :
          LET res_data == final_result_data[1]
              added == [sims |-> 1,
                        resps |-> IF outcome = "flush_raises" THEN 0
                                  ELSE Len(res_data.responses)]
          IN  IF outcome = "ok"
              THEN /\ dbCommitted' = [sims |-> dbCommitted.sims + added.sims,
                                      resps |-> dbCommitted.resps + added.resps]
                   /\ dbPending' = ZeroDb
                   /\ spc' = "done"
                   /\ out' = out
              ELSE /\ ServiceExcept(added)
                   /\ dbCommitted' = dbCommitted
    /\ UNCHANGED <<n, pc, i, scan, responses, counts, metrics, events, calls,
                   pulls, final_result_data, client, arg, ret, frames>>

Next ==
    \/ ClientNext
    \/ ClientNextAfterError
    \/ ClientAbandon
    \/ ScanCall
    \/ ActCall
    \/ InsightCall
    \/ Persist

Spec == Init /\ [][Next]_vars

(***************************************************************************)
(* Function specifications: one call, over every argument drawn            *)
(***************************************************************************)
ScanActionValues ==
    {Absent, Null, Number}
    \cup {Str(a) : a \in {"opened", "Opened", "OPENED", "ignored", "IGNORED",
                          "spam", "Spam", "clicked", "replied", "forwarded",
                          "", "delete"}}
TextValues(s) == {Absent, Null, Str(""), Str(s)}

ScanObjects ==
    {ScanObject(a, r, tp) : a \in ScanActionValues, r \in TextValues("r"),
                            tp \in {Absent, Str("tp")}}
ScanReplies ==
    {Reply(k) : k \in {"raise", "none", "nonjson", "list", "number", "null", "string"}}
    \cup {InFence(Reply("list"))}
    \cup ScanObjects
    \cup {InFence(ScanObject(a, Str("r"), Absent)) : a \in ScanActionValues}

FinalActionValues ==
    {Absent, Null, Number}
    \cup {Str(a) : a \in {"clicked", "Clicked", "replied", "REPLIED", "opened",
                          "forwarded", "ignored", "spam", ""}}
ActObjects ==
    {ActObject(fa, im, rt) : fa \in FinalActionValues, im \in TextValues("im"),
                             rt \in TextValues("rt")}
ActReplies ==
    {Reply(k) : k \in {"raise", "none", "nonjson", "list", "number", "null", "string"}}
    \cup ActObjects
    \cup {InFence(ActObject(fa, Str("im"), Str("rt"))) : fa \in FinalActionValues}

InsightItems ==
    {Item(t, Absent) : t \in {Absent, Null} \cup
                       {Str(x) : x \in {"positive", "Positive", "negative",
                                        "warning", "issue", "ISSUE", "tip", ""}}}
InsightReplies ==
    {InsightReply(k, FALSE, FALSE, <<>>) : k \in {"raise", "none", "nomatch", "badjson", "object"}}
    \cup {InsightReply("object", TRUE, FALSE, <<>>),
          InsightReply("literal", TRUE, TRUE, <<>>)}
    \cup {InsightReply("object", TRUE, TRUE, <<it>>) : it \in InsightItems}
    \cup {InsightReply("object", TRUE, TRUE, <<Item(Str("issue"), Str("t1")), NotADict>>),
          InsightReply("object", TRUE, TRUE, <<NotADict, Item(Str("positive"), Str("t1"))>>),
          InsightReply("literal", TRUE, TRUE,
                       <<Item(Str("tip"), Str("t1")), Item(Str("positive"), Str("t2"))>>)}

\* The words of the texts drawn: stop words and others, in both cases.
Words == {"the", "The", "and", "email", "EMAIL", "offer"}

InitPersona ==
    /\ Created(0)
    /\ \E a \in ScanReplies, c \in ActReplies :
          arg = [fn |-> "persona", scan |-> a, act |-> c]
    /\ ret = NoRet
    /\ frames = NoFrames

InitRate ==
    /\ Created(0)
    /\ \E t \in 0..MaxTotal : \E c \in 0..t :
          arg = [fn |-> "rate", count |-> c, total |-> t]
    /\ ret = NoRet
    /\ frames = NoFrames

\* Metrics of a run: two percentages of one total.
InitInsights ==
    /\ Created(0)
    /\ \E o \in 0..100 : \E x \in 0..(100 - o) : \E r \in InsightReplies :
          arg = [fn |-> "insights",
                 metrics |-> [ZeroMetrics EXCEPT !.openRate = o, !.spamRate = x],
                 reply |-> r]
    /\ ret = NoRet
    /\ frames = NoFrames

InitSimilarity ==
    /\ Created(0)
    /\ \E l1 \in 0..MaxWords, l2 \in 0..MaxWords :
          \E t1 \in [1..l1 -> Words], t2 \in [1..l2 -> Words] :
             arg = [fn |-> "similarity", text1 |-> t1, text2 |-> t2]
    /\ ret = NoRet
    /\ frames = NoFrames

\* response = self._simulate_single_persona(draft, p)
ApplyPersona ==
    /\ ret.fn = "none"
    /\ ret' = [fn |-> "persona", val |-> SimulateSinglePersona(1, arg.scan, arg.act)]
    /\ UNCHANGED <<runVars, arg, frames>>

\* One field of Metrics(...)
ApplyRate ==
    /\ ret.fn = "none"
    /\ ret' = [fn |-> "rate", val |-> Rate(arg.count, arg.total)]
    /\ UNCHANGED <<runVars, arg, frames>>

\* insights = self._generate_insights(draft, metrics, responses)
ApplyInsights ==
    /\ ret.fn = "none"
    /\ ret' = [fn |-> "insights", val |-> GenerateInsights(arg.metrics, arg.reply)]
    /\ UNCHANGED <<runVars, arg, frames>>

\* self._keyword_similarity(text1, text2)
ApplySimilarity ==
    /\ ret.fn = "none"
    /\ ret' = [fn |-> "similarity", val |-> KeywordSimilarity(arg.text1, arg.text2)]
    /\ UNCHANGED <<runVars, arg, frames>>

SpecPersona == InitPersona /\ [][ApplyPersona]_vars
SpecRate == InitRate /\ [][ApplyRate]_vars
SpecInsights == InitInsights /\ [][ApplyInsights]_vars
SpecSimilarity == InitSimilarity /\ [][ApplySimilarity]_vars

(***************************************************************************)
(* Two runs on the module-level simulator (main.py: simulator =            *)
(* Simulator()). A frame holds the locals of one call of                   *)
(* run_simulation_stream, and the oracle answers the call has received.    *)
(* The instance holds llm and embedding_service, which no run assigns.     *)
(***************************************************************************)
Runs == {1, 2}

\* The locals after total = len(personas), at the first oracle call.
FreshFrame(k) ==
    [n |-> k,
     pc |-> IF k > 0 THEN "scan" ELSE "insights",
     i |-> IF k > 0 THEN 1 ELSE 0,
     scan |-> NoScan,
     responses |-> <<>>,
     counts |-> ZeroCounts,
     metrics |-> ZeroMetrics,
     events |-> <<>>,
     answers |-> <<>>]

\* Variant: the counters are attributes of the shared Simulator, read and
\* written by every run.
CountsOfInstance(fs, r) == fs[1].counts

\* open_count .. forward_count are locals of the call.
CountsOf(fs, r) == fs[r].counts

\* The rest of the loop body of run r after _simulate_single_persona returned.
FrameFinish(fs, r, s, h) ==
    LET f == fs[r]
        response == MakeResponse(f.i, s)
        last == f.i = f.n
        c == UpdateCounts(CountsOf(fs, r), response.action, h)
    IN  [f EXCEPT !.responses = Append(f.responses, response),
                  !.counts = c,
                  !.scan = NoScan,
                  !.events = Append(f.events, ProgressEvent(f.i, f.n)),
                  !.pc = IF last THEN "insights" ELSE "scan",
                  !.i = IF last THEN f.i ELSE f.i + 1]

\* Run r up to its next oracle call, the oracle answering ans at this one.
FrameStep(fs, r, ans) ==
    LET f == [fs[r] EXCEPT !.answers = Append(fs[r].answers, ans)]
        gs == [fs EXCEPT ![r] = f]
    IN  CASE f.pc = "scan" ->
                 LET s == ScanStage(ans.reply)
                 IN  IF s.raised THEN [f EXCEPT !.pc = "raised"]
                     ELSE IF ReachesActStage(s.action)
                     THEN [f EXCEPT !.scan = s, !.pc = "act"]
                     ELSE FrameFinish(gs, r, s, FALSE)
          [] f.pc = "act" ->
                 LET c == ActStage(f.scan, ans.reply)
                 IN  IF c.raised THEN [f EXCEPT !.pc = "raised"]
                     ELSE FrameFinish(gs, r, c, ans.h)
          [] f.pc = "insights" ->
                 LET m == ComputeMetrics(CountsOf(gs, r), f.n)
                 IN  [f EXCEPT !.metrics = m,
                               !.events = Append(f.events,
                                   ResultEvent(SimulationResult(m,
                                       GenerateInsights(m, ans.reply), f.responses))),
                               !.pc = "done"]

\* The answers of the oracle at a call of the stage pc; h is
\* hash(p.id) % 5 == 0 for the persona at hand.
FrameAnswers(at) ==
    CASE at = "scan" ->
             {[reply |-> x, h |-> FALSE] :
                  x \in {ScanObject(Str("opened"), Str("r"), Absent),
                         InFence(ScanObject(Str("Spam"), Str("r"), Str("tp"))),
                         Reply("list")}}
      [] at = "act" ->
             {[reply |-> ActObject(Str("clicked"), Str("im"), Null), h |-> b] :
                  b \in BOOLEAN}
             \cup {[reply |-> ActObject(Str("REPLIED"), Str("im"), Str("rt")),
                    h |-> FALSE]}
      [] at = "insights" ->
             {[reply |-> x, h |-> FALSE] :
                  x \in {InsightReply("raise", FALSE, FALSE, <<>>),
                         InsightReply("object", TRUE, TRUE,
                                      <<Item(Str("Positive"), Str("t1"))>>)}}

InitShared ==
    /\ Created(0)
    /\ arg = NoArg
    /\ ret = NoRet
    /\ \E k \in [Runs -> 0..MaxShared] : frames = [r \in Runs |-> FreshFrame(k[r])]

\* One of the runs advances to its next oracle call.
SharedStep ==
    /\ \E r \in Runs :
          /\ frames[r].pc \in {"scan", "act", "insights"}
          /\ \E ans \in FrameAnswers(frames[r].pc) :
                 frames' = [frames EXCEPT ![r] = FrameStep(frames, r, ans)]
    /\ UNCHANGED <<runVars, arg, ret>>

SpecShared == InitShared /\ [][SharedStep]_vars

(***************************************************************************)
(* One run whose oracle is OpenAILLM (llm_service.py)                      *)
(***************************************************************************)
\* client.chat.completions.create raises (network or backend error).
BackendError == [kind |-> "transport_error"]

\* The text "{}" as the stage at reads it.
EmptyJson(at) ==
    IF at = "insights" THEN InsightReply("object", FALSE, FALSE, <<>>)
    ELSE [kind |-> "object", fenced |-> FALSE, fields |-> NoFields]

\* Variant: the exception of the backend is not caught.
OpenAIPredictRaises(outcome, at) ==
    IF outcome.kind = "transport_error"
    THEN (IF at = "insights" THEN InsightReply("raise", FALSE, FALSE, <<>>)
          ELSE Reply("raise"))
    ELSE outcome

\* OpenAILLM.predict: the content of the completion, or "{}" when the call of
\* the backend raises.
OpenAIPredict(outcome, at) ==
    IF outcome.kind = "transport_error" THEN EmptyJson(at) ELSE outcome

\* What the backend does at a call of the stage at: it fails, or the
\* completion has the content reply; h as in FrameAnswers.
BackendOutcomes(at) ==
    {[reply |-> BackendError, h |-> FALSE]} \cup FrameAnswers(at)

InitOpenAI ==
    /\ Created(0)
    /\ arg = NoArg
    /\ ret = NoRet
    /\ \E k \in 0..MaxPersonas : frames = <<FreshFrame(k)>>

\* The run advances to its next oracle call; the answer is logged with the
\* stage and persona of the call and with whether the backend failed.
OpenAIStep ==
    /\ frames[1].pc \in {"scan", "act", "insights"}
    /\ \E outcome \in BackendOutcomes(frames[1].pc) :
          frames' = <<FrameStep(frames, 1,
                         [reply |-> OpenAIPredict(outcome.reply, frames[1].pc),
                          h |-> outcome.h,
                          failed |-> outcome.reply = BackendError,
                          at |-> frames[1].pc,
                          persona |-> frames[1].i])>>
    /\ UNCHANGED <<runVars, arg, ret>>

SpecOpenAI == InitOpenAI /\ [][OpenAIStep]_vars

(***************************************************************************)
(* The mock oracle and the prompts it reads (llm_service.py, prompts.py)   *)
(***************************************************************************)
\* A prompt is held as the sequence of its words: the words of the template,
\* a few of them standing for the rest, and the words of the fields of the
\* draft put into it. No template of prompts.py holds the word Phase.
inbox_scan(subject) ==
    <<"System:", "persona", "subject:">> \o subject
    \o <<"relevance:", "0.50", "JSON", "action", "opened", "ignored", "spam">>
take_action(cta) ==
    <<"System:", "persona", "CTA:">> \o cta
    \o <<"JSON", "final_action", "clicked", "replied", "opened">>

\* "Phase X" in prompt
HasMarker(prompt, x) ==
    \E k \in 1..(Len(prompt) - 1) : prompt[k] = "Phase" /\ prompt[k + 1] = x

\* MockLLM.predict; rnd holds the values drawn by random. The object of
\* Phase B has none of the fields read by the simulator.
MockPredict(prompt, rnd) ==
    IF HasMarker(prompt, "A")
    THEN ScanObject(Str(rnd.action), Str(rnd.reason), Absent)
    ELSE IF HasMarker(prompt, "B")
    THEN [kind |-> "object", fenced |-> FALSE, fields |-> NoFields]
    ELSE IF HasMarker(prompt, "C")
    THEN ActObject(Str(rnd.final_action),
                   Str("I need this solution right now."), Str(rnd.reply_text))
    ELSE [kind |-> "object", fenced |-> FALSE, fields |-> NoFields]

\* The words of the subject and of the call to action of the drafts drawn.
DraftWords == {"Phase", "A", "C", "offer"}

InitMock ==
    /\ Created(0)
    /\ \E l1 \in 0..MaxWords, l2 \in 0..MaxWords :
          \E subject \in [1..l1 -> DraftWords], cta \in [1..l2 -> DraftWords],
             a \in {"opened", "ignored", "spam"},
             r \in {"Subject line was catchy", "Subject looked generic"},
             fa \in {"clicked", "replied", "ignored"},
             rt \in {"Thanks, interesting.", ""} :
                arg = [fn |-> "mock", subject |-> subject, cta |-> cta,
                       rnd |-> [action |-> a, reason |-> r,
                                final_action |-> fa, reply_text |-> rt]]
    /\ ret = NoRet
    /\ frames = NoFrames

\* _simulate_single_persona with self.llm = MockLLM()
ApplyMock ==
    /\ ret.fn = "none"
    /\ LET res_a == MockPredict(inbox_scan(arg.subject), arg.rnd)
           res_c == MockPredict(take_action(arg.cta), arg.rnd)
       IN  ret' = [fn |-> "mock",
                   val |-> [scan |-> res_a, act |-> res_c,
                            persona |-> SimulateSinglePersona(1, res_a, res_c)]]
    /\ UNCHANGED <<runVars, arg, frames>>

SpecMock == InitMock /\ [][ApplyMock]_vars

(***************************************************************************)
(* Properties                                                              *)
(***************************************************************************)
ResultEmitted == \E k \in 1..Len(events) : events[k].type = "result"
Returned == ret.fn # "none" /\ ~ret.val.raised
EnumActions == {"opened", "clicked", "replied", "spam", "ignored"}

\* C1: a run that has ended has emitted exactly n progress events, with
\* current = 1..n in order and total = n, and then exactly one result event,
\* the last; with n = 0 only the result event, whose responses are empty.
C1_EventSequence ==
    pc \in {"done", "raised"} =>
        /\ Len(events) = n + 1
        /\ \A k \in 1..n : events[k] = ProgressEvent(k, n)
        /\ events[n + 1].type = "result"
        /\ (n = 0 => events[1].data.responses = <<>>)

\* C2: the action of every Response returned by _simulate_single_persona is one
\* of opened, clicked, replied, spam, ignored, whatever the oracle replied at
\* the scan and action stages.
C2_ActionInEnum ==
    (ret.fn = "persona" /\ Returned) => ret.val.response.action \in EnumActions

\* An unrecognised scan action was clamped to ignored.
C2_Witness ==
    /\ ret.fn = "persona"
    /\ Returned
    /\ arg.scan.fields["action"] = Str("delete")
    /\ ret.val.response.action = "ignored"

\* C3: no oracle reply makes a run abort: the core generator never raises.
C3_RunNeverAborts == pc # "raised"

\* C4 as amended: once the result event is emitted, the five action counts
\* (open, click, reply, spam, ignore) add up to total, and total is the number
\* of Responses of the result and the number of personas.
C4_FiveCountsSumToTotal ==
    ResultEmitted =>
        /\ counts.open + counts.click + counts.reply + counts.spam + counts.ignore = n
        /\ Len(events[Len(events)].data.responses) = n
        /\ Len(responses) = n

\* A result after a clicked and forwarded persona.
C4_Witness ==
    /\ ResultEmitted
    /\ n = MaxPersonas
    /\ counts.click > 0
    /\ counts.forward > 0
    /\ counts.spam > 0

\* C4 as stated: once the result event is emitted, six of the counters of the
\* orchestrator add up to total.
C4_SixCountsSumToTotal ==
    ResultEmitted =>
        LET all == counts.open + counts.click + counts.reply + counts.spam
                   + counts.ignore + counts.read + counts.forward
        IN  \E k \in DOMAIN counts : all - counts[k] = n

\* C5: a Metrics field is an integer in 0..100, floor(count * 100 / total), and
\* 0 when total = 0.
C5_RateIsFloor ==
    ret.fn = "rate" =>
        /\ ret.val \in 0..100
        /\ ret.val = IF arg.total = 0 THEN 0 ELSE (arg.count * 100) \div arg.total

\* C6: when the scan reply is not JSON, _simulate_single_persona returns a
\* Response with action ignored and comment "Failed to parse decision", and
\* the action stage is not called.
C6_NonJsonScan ==
    (ret.fn = "persona" /\ arg.scan.kind = "nonjson") =>
        /\ ~ret.val.raised
        /\ ret.val.response.action = "ignored"
        /\ ret.val.response.comment = Str("Failed to parse decision")
        /\ ret.val.calls = <<"scan">>

\* A non-JSON scan reply, with an action reply at hand that would click.
C6_Witness ==
    /\ ret.fn = "persona"
    /\ arg.scan.kind = "nonjson"
    /\ arg.act = ActObject(Str("clicked"), Str("im"), Str("rt"))
    /\ ret.val.response.action = "ignored"

\* The scan reply is an object whose lower-cased action is opened.
ScanSaysOpened ==
    /\ arg.scan.kind = "object"
    /\ arg.scan.fields["action"].t = "str"
    /\ Lower(arg.scan.fields["action"].v) = "opened"

\* The action reply is an object whose lower-cased final_action is a.
FinalActionIs(a) ==
    /\ arg.act.kind = "object"
    /\ arg.act.fields["final_action"].t = "str"
    /\ Lower(arg.act.fields["final_action"].v) = a

\* C7: after a scan result of opened, the Response is clicked (replied) only if
\* the lower-cased final_action is clicked (replied), and stays opened for any
\* other final_action; clicked and replied come only after a scan of opened.
C7_OverrideGuard ==
    (ret.fn = "persona" /\ Returned) =>
        LET action == ret.val.response.action
        IN  /\ ScanSaysOpened =>
                /\ action = "clicked" => FinalActionIs("clicked")
                /\ action = "replied" => FinalActionIs("replied")
                /\ (~FinalActionIs("clicked") /\ ~FinalActionIs("replied"))
                       => action = "opened"
            /\ action \in {"clicked", "replied"} => ScanSaysOpened

\* Opened at the scan, final_action forwarded: the Response stays opened.
C7_Witness ==
    /\ ret.fn = "persona"
    /\ Returned
    /\ ScanSaysOpened
    /\ FinalActionIs("forwarded")
    /\ ret.val.response.action = "opened"

\* C8: when the insight call raises, _generate_insights returns the heuristic
\* insights: negative iff openRate < 20, else positive iff openRate > 40, then
\* warning iff spamRate > 10.
C8_HeuristicFallback ==
    (ret.fn = "insights" /\ arg.reply.kind = "raise") =>
        LET m == arg.metrics
            expected ==
                (IF m.openRate < 20 THEN <<"negative">>
                 ELSE IF m.openRate > 40 THEN <<"positive">> ELSE <<>>)
                \o (IF m.spamRate > 10 THEN <<"warning">> ELSE <<>>)
        IN  /\ [k \in 1..Len(ret.val) |-> ret.val[k].type] = expected
            /\ \A k \in 1..Len(ret.val) :
                   ret.val[k] \in {LowOpenRate, HighOpenRate, HighSpamRisk}

\* openRate = 10 and spamRate = 15: negative, then warning.
C8_Witness ==
    /\ ret.fn = "insights"
    /\ arg.reply.kind = "raise"
    /\ arg.metrics.openRate = 10
    /\ arg.metrics.spamRate = 15
    /\ ret.val = <<LowOpenRate, HighSpamRisk>>

\* C9: when the core raises, the lines of event_generator end with one error
\* line, the only one, hold no result line, and nothing is committed or left
\* in the session; the core never yields an error event.
C9_CoreFailureSurfaced ==
    /\ \A k \in 1..Len(events) : events[k].type # "error"
    /\ pc = "raised" =>
           /\ out # <<>>
           /\ out[Len(out)].type = "error"
           /\ Cardinality({k \in 1..Len(out) : out[k].type = "error"}) = 1
           /\ \A k \in 1..Len(out) : out[k].type # "result"
           /\ dbCommitted = ZeroDb
           /\ dbPending = ZeroDb

\* The core raised at the second persona and event_generator has ended.
C9_Witness ==
    /\ pc = "raised"
    /\ spc = "done"
    /\ Len(out) = 2

PersonaCalls == {k \in 1..Len(calls) : calls[k].stage \in {"scan", "act"}}

C10_State ==
    /\ pc \in {"scan", "act"} => Len(events) = i - 1 /\ pulls = i
    /\ \A k \in PersonaCalls :
           calls[k].persona <= Len(events) + 1 /\ calls[k].persona <= pulls
    /\ (pc = "insights" \/ ResultEmitted \/ PersonaCalls # DOMAIN calls) =>
           /\ Len(events) >= n
           /\ pulls >= n + 1
           /\ \A k \in 1..n : events[k].type = "progress"
    /\ client = "gone" =>
           /\ pc # "raised" => \A k \in PersonaCalls : calls[k].persona <= Len(events)
           /\ Len(events) <= n => ~ResultEmitted /\ PersonaCalls = DOMAIN calls

\* C10: the oracle calls of persona k+1 are made only after the consumer has
\* taken the progress event of persona k and asked for the next; the insight
\* call and the result event come only after all n progress events are taken;
\* once the consumer has stopped, no oracle call is made and no event produced.
C10_LazyStream ==
    /\ []C10_State
    /\ [][client = "gone" => UNCHANGED <<calls, events>>]_vars

\* The consumer stopped after the first of three progress events.
C10_Witness ==
    /\ client = "gone"
    /\ n = 3
    /\ Len(events) = 1
    /\ Len(calls) >= 1

\* The words of a text that are left after lower-casing and stop-word removal.
Kept(text) == {w \in {Lower(text[k]) : k \in DOMAIN text} : w \notin stop_words}

\* C11: _keyword_similarity is symmetric, is 1.0 for a text against itself when
\* a word is left after stop-word removal, is 0.0 when either word set is
\* empty, and is always |intersection| / |union| of the two word sets, a value
\* in [0, 1].
C11_Jaccard ==
    ret.fn = "similarity" =>
        LET w1 == Kept(arg.text1)
            w2 == Kept(arg.text2)
        IN  /\ ret.val = KeywordSimilarity(arg.text2, arg.text1)
            /\ w1 # {} => KeywordSimilarity(arg.text1, arg.text1) = [num |-> 1, den |-> 1]
            /\ (arg.text1 = arg.text2 /\ w1 # {}) => ret.val = [num |-> 1, den |-> 1]
            /\ (w1 = {} \/ w2 = {}) => ret.val = [num |-> 0, den |-> 1]
            /\ 0 <= ret.val.num /\ ret.val.num <= ret.val.den /\ ret.val.den > 0
            /\ (w1 # {} /\ w2 # {}) =>
                   ret.val.num * Cardinality(w1 \cup w2)
                       = ret.val.den * Cardinality(w1 \cap w2)

\* "The EMAIL" against "offer email": one word of two in common.
C11_Witness ==
    /\ ret.fn = "similarity"
    /\ arg.text1 = <<"The", "EMAIL">>
    /\ arg.text2 = <<"offer", "email">>
    /\ ret.val = [num |-> 1, den |-> 2]

\* The three clamping cases of the scan stage.
ScanParseFails == arg.scan.kind \in {"raise", "none", "nonjson"}
ScanActionAbsent ==
    arg.scan.kind = "object" /\ arg.scan.fields["action"] = Absent
ScanActionUnrecognised ==
    /\ arg.scan.kind = "object"
    /\ arg.scan.fields["action"].t = "str"
    /\ Lower(arg.scan.fields["action"].v) \notin {"opened", "ignored", "spam"}

\* C12 as amended: in each of the three clamping cases the action is ignored
\* and the action stage is not called; the comment is "Failed to parse
\* decision" when the reply fails to parse, and otherwise the reason of the
\* parsed object: "Not relevant" when it has none, "No comment" when it is
\* null or empty.
C12_ClampKeepsReason ==
    (ret.fn = "persona"
     /\ (ScanParseFails \/ ScanActionAbsent \/ ScanActionUnrecognised)) =>
        LET r == arg.scan.fields["reason"]
        IN  /\ ~ret.val.raised
            /\ ret.val.response.action = "ignored"
            /\ ret.val.calls = <<"scan">>
            /\ ret.val.response.comment =
                   IF ScanParseFails THEN Str("Failed to parse decision")
                   ELSE IF r = Absent THEN Str("Not relevant")
                   ELSE IF r = Null \/ r = Str("") THEN Str("No comment")
                   ELSE r

\* An unrecognised action with a reason: ignored, and the reason is kept.
C12_Witness ==
    /\ ret.fn = "persona"
    /\ arg.scan = ScanObject(Str("delete"), Str("r"), Absent)
    /\ ret.val.response.action = "ignored"
    /\ ret.val.response.comment = Str("r")

\* C12 as stated: in each of the three clamping cases the action is ignored
\* and the comment is "Failed to parse decision".
C12_ClampFixedReason ==
    (ret.fn = "persona"
     /\ (ScanParseFails \/ ScanActionAbsent \/ ScanActionUnrecognised)) =>
        /\ ~ret.val.raised
        /\ ret.val.response.action = "ignored"
        /\ ret.val.response.comment = Str("Failed to parse decision")

\* absent, null or the empty string
Blank(x) == x \in {Absent, Null, Str("")}

\* C13: on the opened path the comment of a replied Response is reply_text,
\* or the internal monologue when reply_text is absent or empty, or the scan
\* reason when the monologue is absent too; the comment of an opened or
\* clicked Response is the internal monologue, or the scan reason when the
\* monologue is absent ("No comment" standing in for an empty result).
C13_CommentFallbacks ==
    (ret.fn = "persona" /\ Returned /\ ScanSaysOpened) =>
        LET res_c == IF arg.act.kind = "object" THEN arg.act.fields
                     ELSE ActDefault.fields
            reason == IF arg.scan.fields["reason"] = Absent
                      THEN Str("Not relevant") ELSE arg.scan.fields["reason"]
            monologue == IF res_c["internal_monologue"] = Absent
                         THEN reason ELSE res_c["internal_monologue"]
            expected == IF ret.val.response.action = "replied"
                           /\ ~Blank(res_c["reply_text"])
                        THEN res_c["reply_text"]
                        ELSE monologue
        IN  ret.val.response.comment =
                IF Blank(expected) THEN Str("No comment") ELSE expected

\* An exception occurs in the try block of _generate_insights: at the oracle
\* call, at the extraction or parsing of the JSON, or at an item of the list.
InsightPathRaises ==
    \/ arg.reply.kind \in {"raise", "none", "badjson"}
    \/ /\ arg.reply.kind \in {"literal", "object"}
       /\ arg.reply.has_insights
       /\ \/ ~arg.reply.list
          \/ \E k \in 1..Len(arg.reply.items) :
                 \/ ~arg.reply.items[k].dict
                 \/ arg.reply.items[k].type.t \notin {"absent", "str"}

\* The insights of the heuristic rules for the metrics m.
HeuristicInsights(m) ==
    (IF m.openRate < 20 THEN <<LowOpenRate>>
     ELSE IF m.openRate > 40 THEN <<HighOpenRate>> ELSE <<>>)
    \o (IF m.spamRate > 10 THEN <<HighSpamRisk>> ELSE <<>>)

\* C14: when an exception occurs anywhere in the oracle-driven path, also at
\* an item that follows converted items, _generate_insights returns exactly
\* the heuristic insights of the metrics, and no oracle-derived insight.
C14_NoHybrid ==
    (ret.fn = "insights" /\ InsightPathRaises) =>
        ret.val = HeuristicInsights(arg.metrics)

\* The positions in calls of the calls of one stage for persona p.
CallsOf(stage, p) ==
    {k \in 1..Len(calls) : calls[k] = [stage |-> stage, persona |-> p]}

\* The personas processed so far whose Response is opened, clicked or replied.
OpenedAtScan ==
    {p \in 1..Len(responses) : responses[p].action \in {"opened", "clicked", "replied"}}

\* C15: for each persona one scan call is made, followed at once by one action
\* call iff the scan action is opened, and no call is ever made twice; the
\* calls are made in persona order, the insight call last; a run that has
\* emitted its result has made n + (personas opened at the scan) + 1 calls.
C15_CallStructure ==
    /\ \A p \in 1..n :
           /\ Cardinality(CallsOf("scan", p)) <= 1
           /\ Cardinality(CallsOf("act", p)) <= 1
    /\ Cardinality(CallsOf("insights", 0)) <= 1
    /\ \A k \in 1..Len(calls) :
           /\ calls[k].stage = "act" =>
                  k > 1 /\ calls[k - 1] = [stage |-> "scan", persona |-> calls[k].persona]
           /\ calls[k].stage = "scan" =>
                  Cardinality(CallsOf("scan", calls[k].persona - 1))
                      = IF calls[k].persona = 1 THEN 0 ELSE 1
           /\ k < Len(calls) =>
                  /\ calls[k].stage # "insights"
                  /\ calls[k].persona <= calls[k + 1].persona \/ calls[k + 1].stage = "insights"
    /\ \A p \in 1..Len(responses) :
           /\ Cardinality(CallsOf("scan", p)) = 1
           /\ Cardinality(CallsOf("act", p)) = IF p \in OpenedAtScan THEN 1 ELSE 0
    /\ pc = "act" => scan.action = "opened" /\ CallsOf("act", i) = {}
    /\ ResultEmitted =>
           /\ Len(responses) = n
           /\ Len(calls) = n + Cardinality(OpenedAtScan) + 1
           /\ calls[Len(calls)].stage = "insights"

\* A run of three personas, two of them opened at the scan: six calls.
C15_Witness ==
    /\ ResultEmitted
    /\ n = 3
    /\ Cardinality(OpenedAtScan) = 2
    /\ Len(calls) = 6

\* The parsed object of the insight reply holds a list under "insights".
HasInsightsList ==
    /\ arg.reply.kind \in {"literal", "object"}
    /\ arg.reply.has_insights
    /\ arg.reply.list

\* The type the claim gives to the Insight of an item.
ExpectedType(item) ==
    IF item.dict /\ item.type.t = "str"
    THEN LET t == Lower(item.type.v)
         IN  IF t = "issue" THEN "negative"
             ELSE IF t \in {"positive", "negative", "warning"} THEN t
             ELSE "warning"
    ELSE "warning"

\* One Insight per item, in the order of the list, and nothing else.
OneInsightPerItem ==
    /\ Len(ret.val) = Len(arg.reply.items)
    /\ \A k \in 1..Len(arg.reply.items) :
           /\ ret.val[k].type = ExpectedType(arg.reply.items[k])
           /\ ret.val[k].title = IF arg.reply.items[k].title.t = "str"
                                 THEN arg.reply.items[k].title.v ELSE "Insight"

\* Every item of the list is an object whose type is a string or is missing.
ItemsWellFormed ==
    \A k \in 1..Len(arg.reply.items) :
        arg.reply.items[k].dict /\ arg.reply.items[k].type.t \in {"absent", "str"}

\* C16 as amended: when the parsed object holds an insights list whose items
\* are all objects with a string type or no type, _generate_insights returns
\* one Insight per item in the order of the list, issue mapped to negative,
\* a type outside the three and a missing type to warning, and the heuristic
\* rules are not applied, also when the list is empty.
C16_OracleInsights ==
    (ret.fn = "insights" /\ HasInsightsList /\ ItemsWellFormed) => OneInsightPerItem

\* Two items, the first of an unknown type, with an open rate under 20.
C16_Witness ==
    /\ ret.fn = "insights"
    /\ arg.reply.kind = "literal"
    /\ arg.reply.items = <<Item(Str("tip"), Str("t1")), Item(Str("positive"), Str("t2"))>>
    /\ arg.metrics.openRate = 10
    /\ ret.val = <<Insight("warning", "t1"), Insight("positive", "t2")>>

\* C16 as stated: whenever the parsed object holds an insights list,
\* _generate_insights returns one Insight per item in the order of the list,
\* with the normalised types, and the heuristic rules are not applied.
C16_AnyInsightsList ==
    (ret.fn = "insights" /\ HasInsightsList) => OneInsightPerItem

\* C17: in the lines of event_generator the result line, when there is one, is
\* the only result line and the last line, also after the save has failed.
C17_ResultLast ==
    /\ Cardinality({k \in 1..Len(out) : out[k].type = "result"}) <= 1
    /\ \A k \in 1..Len(out) : out[k].type = "result" => k = Len(out)

\* C18: one Response per persona, in the order of the population: when
\* progress event k is emitted the responses are k, the p-th of them refers to
\* persona p, and the result holds these n responses in that order.
C18_OneResponsePerPersona ==
    /\ Len(responses) <= n
    /\ \A p \in 1..Len(responses) : responses[p].persona = p
    /\ Cardinality({k \in 1..Len(events) : events[k].type = "progress"}) = Len(responses)
    /\ \A k \in 1..Len(events) :
           events[k].type = "progress" => events[k].current = k /\ k <= Len(responses)
    /\ pc = "progress" =>
           /\ events[Len(events)] = ProgressEvent(Len(responses), n)
           /\ Len(responses) = i
    /\ ResultEmitted =>
           LET data == events[Len(events)].data
           IN  /\ Len(data.responses) = n
               /\ \A p \in 1..n : data.responses[p].persona = p
               /\ data.responses = responses

\* The result of a run of three personas with three different actions.
C18_Witness ==
    /\ ResultEmitted
    /\ n = 3
    /\ events[Len(events)].data.responses[1].action = "ignored"
    /\ events[Len(events)].data.responses[2].action = "clicked"
    /\ events[Len(events)].data.responses[3].action = "spam"

\* C19: after k personas, and so at every progress event, the five action
\* counts add up to k and read_count = open_count + click_count + reply_count,
\* hence read_count + spam_count + ignore_count = k; in the result readRate is
\* at least openRate, clickRate and replyRate.
C19_CounterInvariant ==
    LET k == Len(responses)
    IN  /\ counts.open + counts.click + counts.reply + counts.spam + counts.ignore = k
        /\ counts.read = counts.open + counts.click + counts.reply
        /\ counts.read + counts.spam + counts.ignore = k
        /\ pc = "progress" => events[Len(events)].current = k
        /\ ResultEmitted =>
               LET m == events[Len(events)].data.metrics
               IN  /\ m.readRate >= m.openRate
                   /\ m.readRate >= m.clickRate
                   /\ m.readRate >= m.replyRate

\* The fourth progress event, after an opened, a clicked, a replied and a spam
\* Response.
C19_Witness ==
    /\ pc = "progress"
    /\ Len(responses) = 4
    /\ counts.open = 1
    /\ counts.click = 1
    /\ counts.reply = 1
    /\ counts.spam = 1
    /\ counts.read = 3

\* The scan reason, and on the opened path the monologue and the reply text of
\* a parsed action reply, are all null, empty or (the last two) absent.
EveryFallbackEmpty ==
    /\ arg.scan.kind = "object"
    /\ arg.scan.fields["reason"] \in {Null, Str("")}
    /\ ScanSaysOpened =>
           /\ arg.act.kind = "object"
           /\ Blank(arg.act.fields["internal_monologue"])
           /\ Blank(arg.act.fields["reply_text"])

\* C20: whatever the scan and action replies, with reason, internal_monologue
\* and reply_text absent, null or empty, the comment of the Response is a
\* non-empty string, and it is "No comment" when every fallback is empty.
C20_CommentNeverBlank ==
    (ret.fn = "persona" /\ Returned) =>
        /\ ret.val.response.comment.t = "str"
        /\ ret.val.response.comment.v # ""
        /\ EveryFallbackEmpty => ret.val.response.comment = Str("No comment")

\* A replied Response whose reply_text is the empty string.
C20_Witness ==
    /\ ret.fn = "persona"
    /\ Returned
    /\ ret.val.response.action = "replied"
    /\ arg.scan.fields["reason"] = Str("")
    /\ arg.act.fields["reply_text"] = Str("")
    /\ ret.val.response.comment = Str("No comment")

\* Run r alone on the simulator, given the answers of the sequence in order.
RECURSIVE Alone(_, _, _)
Alone(r, k, answers) ==
    IF answers = <<>>
    THEN [q \in Runs |-> FreshFrame(IF q = r THEN k ELSE 0)]
    ELSE LET before == Alone(r, k, SubSeq(answers, 1, Len(answers) - 1))
         IN  [before EXCEPT ![r] = FrameStep(before, r, answers[Len(answers)])]

\* C21: in every interleaving of two runs on the shared simulator, the events,
\* counters, responses and metrics of each run are those of the same run made
\* alone with the same oracle answers.
C21_RunsIndependent ==
    frames # NoFrames =>
        \A r \in Runs :
            LET alone == Alone(r, frames[r].n, frames[r].answers)[r]
            IN  /\ frames[r].events = alone.events
                /\ frames[r].counts = alone.counts
                /\ frames[r].responses = alone.responses
                /\ frames[r].metrics = alone.metrics
                /\ frames[r].pc = alone.pc

\* Both runs are in the middle of their second persona, with different counts.
C21_Witness ==
    /\ frames # NoFrames
    /\ frames[1].pc = "act" /\ frames[1].i = 2
    /\ frames[2].pc = "act" /\ frames[2].i = 2
    /\ frames[1].counts.click = 1
    /\ frames[2].counts.spam = 1

\* C22: a failure of the backend is returned by OpenAILLM.predict as "{}"; a
\* persona whose scan call failed is recorded as ignored with no action call,
\* its progress event is emitted and the run goes on with the next persona or
\* the insights; no failed call makes the run raise, and the run that has
\* ended without raising has emitted its result event last.
C22_TransportFailureAbsorbed ==
    frames # NoFrames =>
        LET f == frames[1]
        IN  /\ \A k \in 1..Len(f.answers) :
                   LET a == f.answers[k]
                       p == a.persona
                   IN  a.failed =>
                           /\ a.reply = EmptyJson(a.at)
                           /\ ~(k = Len(f.answers) /\ f.pc = "raised")
                           /\ a.at = "scan" =>
                                  /\ Len(f.responses) >= p
                                  /\ f.responses[p].action = "ignored"
                                  /\ f.events[p] = ProgressEvent(p, f.n)
                                  /\ \A j \in 1..Len(f.answers) :
                                         ~(f.answers[j].at = "act" /\ f.answers[j].persona = p)
                                  /\ k < Len(f.answers) =>
                                         \/ f.answers[k + 1].at = "insights"
                                         \/ /\ f.answers[k + 1].at = "scan"
                                            /\ f.answers[k + 1].persona = p + 1
                                  /\ k = Len(f.answers) =>
                                         f.pc = IF p < f.n THEN "scan" ELSE "insights"
            /\ f.pc = "done" =>
                   /\ Len(f.events) = f.n + 1
                   /\ f.events[f.n + 1].type = "result"

\* The scan call of the second of three personas failed; the third persona
\* was opened and clicked, and the result is emitted.
C22_Witness ==
    /\ frames # NoFrames
    /\ frames[1].n = 3
    /\ frames[1].pc = "done"
    /\ \E k \in 1..Len(frames[1].answers) :
           /\ frames[1].answers[k].failed
           /\ frames[1].answers[k].at = "scan"
           /\ frames[1].answers[k].persona = 2
    /\ frames[1].responses[2].action = "ignored"
    /\ frames[1].responses[3].action = "clicked"
    /\ frames[1].events[4].type = "result"

\* C23: for the scan prompt of every draft MockLLM.predict returns an object
\* with an action among opened, ignored and spam, and for the action prompt
\* an object with a final_action: the markers are in every stage prompt.
C23_MockAnswersEveryStage ==
    ret.fn = "mock" =>
        /\ ret.val.scan.fields["action"] \in {Str("opened"), Str("ignored"), Str("spam")}
        /\ ret.val.act.fields["final_action"] # Absent

\* forward_count never exceeds click_count, at a progress event as anywhere,
\* and forwardRate never exceeds clickRate in a result.
C24_State ==
    /\ counts.forward <= counts.click
    /\ \A k \in 1..Len(events) :
           events[k].type = "result" =>
               events[k].data.metrics.forwardRate <= events[k].data.metrics.clickRate

\* A step that changes forward_count adds one to it while it appends a clicked
\* Response and adds one to click_count.
C24_Step ==
    counts'.forward # counts.forward =>
        /\ counts'.forward = counts.forward + 1
        /\ counts'.click = counts.click + 1
        /\ Len(responses') = Len(responses) + 1
        /\ responses'[Len(responses')].action = "clicked"

\* C24: the forward counter is incremented only for a persona whose final
\* action is clicked, at most once per persona; so forward_count <= click_count
\* at every progress event and forwardRate <= clickRate in every result.
C24_ForwardWithinClicks == []C24_State /\ [][C24_Step]_vars

\* A result over four personas, two of them clicked and one of these forwarded.
C24_Witness ==
    /\ ResultEmitted
    /\ n = 4
    /\ counts.click = 2
    /\ counts.forward = 1
    /\ events[Len(events)].data.metrics.clickRate = 50
    /\ events[Len(events)].data.metrics.forwardRate = 25

====
